---- MODULE Spec2Model ----
(***************************************************************************)
(* Transaction intake pipeline: the JS gateway (authentication middleware, *)
(* cache-aside reads, create path with side effects, proxy routes) and the *)
(* Go ledger service (atomic multi-row write), with the cache store, the   *)
(* ledger store and the peer services as environments whose every call     *)
(* may succeed, fail, or stay unanswered.                                  *)
(***************************************************************************)
EXTENDS Integers, Sequences, FiniteSets, TLC

\* ------------------------------------------------------------------ bounds
\* Number of transaction ids uuid.New() can hand out in a run.
MaxTx == 2
\* Largest item list of a create request.
MaxItems == 2
\* Connections the gateway opens to the broker in one run.
MaxConn == 2
\* Signals the gateway process receives in one run.
MaxSignals == 3
\* Registrations the auth service answers 201 in one run.
MaxRegs == 3

\* ------------------------------------------------------- program constants
\* TAX_RATE = 0.08, as a percentage.
TAX_RATE == 8
AGGREGATE_CACHE_TTL == 60
TRANSACTION_CACHE_TTL == 120

\* Request slots of the gateway. The handlers keep no state in the process
\* between requests, and what each does to the stores is modelled step by
\* step, so one request in flight, its slot reused, reaches every state the
\* stores and a single request can be in.
Reqs == {1}
TxIds == 1..MaxTx
\* The cache key aggregate:v1 (the transaction keys are the ids).
AggKey == 0
\* Keys of the cache store: transaction:<id>, one per well-formed id, and
\* the key of the aggregate.
CacheKeys == TxIds \cup {AggKey}
\* An id parameter that does not match UUID_REGEX.
BadId == 0

VARIABLES
    gw,      \* gateway: per request slot, the handler's position and locals
    ldg,     \* ledger service: per request slot, processTransactionHandler
    db,      \* ledger store: rows written, and the transactions still open
    nextId,  \* number of ids uuid.New() has handed out
    asked,   \* per id handed out, the number of items of its request
    cache,   \* cache store: key -> stored string, or no entry
    bus,     \* gateway's messageBus module: its two variables, the broker's
             \* connections and the calls of ensureChannel/publish in progress
    proc,    \* gateway process: signals received and the shutdown's progress
    reg      \* auth service: the users map and the registrations in progress

vars == <<gw, ldg, db, nextId, asked, cache, bus, proc, reg>>
\* The variables of the request handling.
reqVars == <<gw, ldg, db, nextId, asked, cache>>

\* ------------------------------------------------------------------ values
\* messageBus.js after require: both module variables undefined, nothing
\* opened, no call in progress.
BusCallers == {"warmup", "publish1", "publish2"}
IdleCall == [pc |-> "idle", got |-> 0]
NoBus == [connection |-> 0, channel |-> 0, opened |-> 0, listened |-> FALSE,
          state |-> [i \in 1..MaxConn |-> "none"],
          call |-> [c \in BusCallers |-> IdleCall]]
\* The gateway process once it listens: no signal received, shuttingDown
\* false, the tracing SDK running, the HTTP server listening.
Resources == {"cache", "messageBus", "database"}
NoProc == [signals |-> <<>>, shuttingDown |-> FALSE, starts |-> 0, closing |-> {},
           server |-> "listening", sdk |-> "running", exited |-> "no"]
\* The auth service after start: the users map empty, no registration in
\* progress, none answered. users maps a username to the email stored
\* under it, "" for a username that is not a key of the map.
RegReqs == {1, 2}
Usernames == {"ann", "bob"}
Emails == {"a@x", "b@x"}
IdleReg == [pc |-> "idle", username |-> "", email |-> "", password |-> "", status |-> 0]
NoReg == [users |-> [u \in Usernames |-> ""], accepted |-> <<>>,
          h |-> [r \in RegReqs |-> IdleReg]]
\* JavaScript null (a falsy value), as a record so that bodies compare.
Null == [null |-> TRUE]
NoEntry == [present |-> FALSE, str |-> [json |-> [null |-> TRUE]], ttl |-> 0]
NoResp == [status |-> 0, body |-> Null, xcache |-> "-"]

Has(s, e) == \E i \in 1..Len(s) : s[i] = e
\* Position of the first occurrence of e in s, 0 when absent.
Pos(s, e) == IF Has(s, e) THEN CHOOSE i \in 1..Len(s) : s[i] = e /\ \A j \in 1..(i-1) : s[j] # e ELSE 0

\* ------------------------------------------------------------------ routes
\* The routes of server.js that the model serves.
Routes == {"health", "authValidate", "goGet", "goPost", "txGet", "create"}

\* req.path of a request on the route.
Path(route) ==
    CASE route = "health" -> "/health"
      [] route = "authValidate" -> "/v1/auth/validate"
      [] route = "goGet" -> "/api/v1/go/x"
      [] route = "goPost" -> "/api/v1/go/x"
      [] route = "txGet" -> "/api/v1/transactions/:id"
      [] route = "create" -> "/api/v1/process-transaction"
      [] route = "aggregate" -> "/api/v1/aggregate"
      [] route = "pyGet" -> "/api/v1/python/x"
      [] route = "pyPost" -> "/api/v1/python/x"
      [] route = "unitHealth" -> "/health"
      [] route = "unitMetrics" -> "/metrics"
      [] route = "unitAuthLogin" -> "/v1/auth/login"
      [] route = "unitAuthBare" -> "/v1/auth"
      [] route = "unitTest" -> "/api/v1/test"

\* Routes registered with the authenticateToken middleware.
HasAuthMiddleware(route) ==
    route \in {"authValidate", "goPost", "txGet", "create", "aggregate", "pyGet", "pyPost"}

\* String.prototype.startsWith
StartsWith(s, p) == Len(s) >= Len(p) /\ SubSeq(s, 1, Len(p)) = p

AllowListedNone(path) == FALSE
\* The paths authenticateToken lets through unchecked.
AllowListed(path) == path = "/health" \/ path = "/metrics" \/ StartsWith(path, "/v1/auth/")

\* ------------------------------------------------------------- credentials
\* The Authorization header of a request: absent, not a Bearer header, or a
\* Bearer token that jwt.verify accepts or rejects in one of its three ways.
Creds == {"absent", "nonBearer", "valid", "expired", "malformed", "notBefore"}

HasBearer(cred) == cred \notin {"absent", "nonBearer"}

\* jwt.verify(token, JWT_SECRET): "ok", or the name of the error thrown.
JwtVerify(cred) ==
    CASE cred = "valid" -> "ok"
      [] cred = "expired" -> "TokenExpiredError"
      [] cred = "malformed" -> "JsonWebTokenError"
      [] cred = "notBefore" -> "NotBeforeError"
      [] OTHER -> "JsonWebTokenError"

\* Answers of the auth service's /api/v1/validate: valid:true, valid:false,
\* or no usable answer (error status, connection failure).
RemoteOutcomes == {"valid", "invalid", "error"}

RemoteAcceptsAny(outcome) == TRUE
\* response.data.valid of an answered validation call.
RemoteAccepts(outcome) == outcome = "valid"

\* ------------------------------------------------------------------- state
\* The services GET /api/v1/aggregate calls, by their slot in its answer.
Collabs == {"go_service", "python_service", "csharp_risk_service", "dotnet_service"}

IdleGw == [pc |-> "idle", route |-> "health", cred |-> "absent", arg |-> 0,
           log |-> <<>>, resp |-> NoResp, data |-> Null, saw |-> NoEntry,
           calls |-> [c \in Collabs |-> "none"], got |-> [c \in Collabs |-> Null],
           user |-> "unset"]
\* A TransactionRequest as decoded: its items (price in cents, quantity),
\* its discount code and its customer_id; malformed when the body does not
\* decode.
NoBody == [malformed |-> FALSE, items |-> <<>>, code |-> "", customer |-> ""]
\* The handler's subtotal, discount, tax and total before they are computed.
NoPrice == [subtotal |-> 0, discount |-> 0, tax |-> 0, total |-> 0]
\* cancelled: "no", or the handler's position when the client went away and
\* the request context was cancelled.
IdleLdg == [pc |-> "idle", txn |-> 0, n |-> 0, inserted |-> 0, status |-> 0,
            body |-> NoBody, price |-> NoPrice, out |-> Null, cancelled |-> "no"]

Init ==
    /\ gw = [r \in Reqs |-> IdleGw]
    /\ ldg = [r \in Reqs |-> IdleLdg]
    /\ db = [rows |-> {}, open |-> {}]
    /\ nextId = 0
    /\ asked = [id \in TxIds |-> 0]
    /\ cache = [k \in CacheKeys |-> NoEntry]
    /\ bus = NoBus
    /\ proc = NoProc
    /\ reg = NoReg

\* gw with request r at position p, e appended to its log.
Step(r, p, e) == [gw EXCEPT ![r].pc = p, ![r].log = Append(@, e)]
\* gw with request r answered: res.status(s).json(b).
Respond(g, r, s, b, x) ==
    [g EXCEPT ![r].pc = "done", ![r].resp = [status |-> s, body |-> b, xcache |-> x],
              ![r].log = Append(@, "respond")]
ErrBody(msg) == [error |-> msg]

\* A client request arrives on one of the given routes.
Arrive(r, routes) ==
    /\ gw[r].pc = "idle"
    /\ \E route \in routes, cred \in Creds :
         \E arg \in (CASE route = "txGet" -> TxIds \cup {BadId}
                       [] route = "create" -> 0..MaxItems
                       [] OTHER -> {0}) :
            gw' = [gw EXCEPT ![r] = [IdleGw EXCEPT
                        !.pc = IF HasAuthMiddleware(route) THEN "auth" ELSE "handler",
                        !.route = route, !.cred = cred, !.arg = arg]]
    /\ UNCHANGED <<ldg, db, nextId, asked, cache, bus, proc, reg>>

Start(r) == Arrive(r, Routes)

AcceptAndRespond(g, r, user) ==
    [g EXCEPT ![r].pc = "handler", ![r].user = user, ![r].log = @ \o <<"next", "respond">>,
              ![r].resp = [status |-> 200, body |-> Null, xcache |-> "-"]]
\* gw with request r accepted: `req.user = user; next()`, where user is the
\* decoded token or the user of the validation answer.
Accept(g, r, user) ==
    [g EXCEPT ![r].pc = "handler", ![r].user = user, ![r].log = Append(@, "next")]

\* authenticateToken up to its first await (auth.js lines 15-53).
AuthLocal(r) ==
    /\ gw[r].pc = "auth"
    /\ gw' =
         IF AllowListed(Path(gw[r].route)) THEN Step(r, "handler", "next")
         ELSE IF ~HasBearer(gw[r].cred) THEN Respond(gw, r, 401, ErrBody("Unauthorized"), "-")
         ELSE IF JwtVerify(gw[r].cred) = "ok"
              THEN Accept(gw, r, "decoded")
              ELSE Step(r, "authRemote", "remoteAuth")
    /\ UNCHANGED <<ldg, db, nextId, asked, cache, bus, proc, reg>>

\* What the validation call came back with, as the request's log records it.
RemoteEvent(outcome) ==
    CASE outcome = "valid" -> "remoteValid"
      [] outcome = "invalid" -> "remoteInvalid"
      [] outcome = "error" -> "remoteError"

\* The message of the 401 sent when the validation call threw.
AuthCatchMessage(name) ==
    CASE name = "JsonWebTokenError" -> "Invalid token"
      [] name = "TokenExpiredError" -> "Token expired"
      [] OTHER -> "Token validation failed"

\* authenticateToken after the validation call settled (auth.js lines 55-70).
AuthRemoteAnswer(r) ==
    /\ gw[r].pc = "authRemote"
    /\ \E outcome \in RemoteOutcomes :
         LET g == Step(r, "authRemote", RemoteEvent(outcome)) IN
         gw' = IF outcome = "error"
               THEN Respond(g, r, 401, ErrBody(AuthCatchMessage(JwtVerify(gw[r].cred))), "-")
               ELSE IF RemoteAccepts(outcome)
                    THEN Accept(g, r, "remote")
                    ELSE Respond(g, r, 401, ErrBody("Invalid token"), "-")
    /\ UNCHANGED <<ldg, db, nextId, asked, cache, bus, proc, reg>>

\* ----------------------------------------------------------------- pricing
\* A float64 amount of money is held as an integer number of 10^-5 dollars:
\* prices have two decimals, the discount rates two and the tax rate two,
\* so every amount the handler computes is a whole number of these units.
\* (float64 carries such amounts to better than 10^-9 dollars.)
Amount(cents) == cents * 1000

calculateSubtotalSkipsNone(items) ==
    LET RECURSIVE Go(_)
        Go(i) == IF i = 0 THEN 0
                 ELSE Go(i - 1) + Amount(items[i].price) * items[i].quantity
    IN Go(Len(items))
\* calculateSubtotal: the items with quantity <= 0 or price < 0 are skipped.
calculateSubtotal(items) ==
    LET RECURSIVE Go(_)
        Go(i) == IF i = 0 THEN 0
                 ELSE IF items[i].quantity <= 0 \/ items[i].price < 0
                      THEN Go(i - 1)
                      ELSE Go(i - 1) + Amount(items[i].price) * items[i].quantity
    IN Go(Len(items))

\* The discounts map of applyDiscount, rates as percentages.
DiscountCodes == {"SAVE10", "SAVE20", "WELCOME", "VIP"}
DiscountRate(code) ==
    CASE code = "SAVE10" -> 10
      [] code = "SAVE20" -> 20
      [] code = "WELCOME" -> 15
      [] code = "VIP" -> 25

applyDiscountToAll(subtotal, discountCode) == subtotal
applyDiscount(subtotal, discountCode) ==
    IF discountCode = "" THEN 0
    ELSE IF discountCode \in DiscountCodes
         THEN (subtotal \div 100) * DiscountRate(discountCode)
         ELSE 0

calculateTax(subtotal, taxRate) == (subtotal * taxRate) \div 100

\* The four values processTransactionHandler computes (main.go 268-271).
PriceOf(body) ==
    LET subtotal == calculateSubtotal(body.items)
        discount == applyDiscount(subtotal, body.code)
        tax == calculateTax(subtotal - discount, TAX_RATE)
    IN [subtotal |-> subtotal, discount |-> discount, tax |-> tax,
        total |-> subtotal - discount + tax]

\* A value assigned to a NUMERIC(14,2) column, in cents: the store rounds
\* it to two decimals, half away from zero.
Numeric(x) == IF x >= 0 THEN (x + 500) \div 1000 ELSE 0 - ((500 - x) \div 1000)

\* ------------------------------------------------------------ ledger store
\* Rows a reader sees: those of committed transactions (read committed).
Visible(d) == {x \in d.rows : x.txn \notin d.open}
\* The key of a row of transactions, and of a row of transaction_items.
HeaderRow(id) == [txn |-> id, kind |-> "header", idx |-> 0]
ItemRow(id, i) == [txn |-> id, kind |-> "item", idx |-> i]
\* A stored row: its key and its column values.
Stored(key, val) == [txn |-> key.txn, kind |-> key.kind, idx |-> key.idx, val |-> val]
RowKey(x) == [txn |-> x.txn, kind |-> x.kind, idx |-> x.idx]
Keys(rows) == {RowKey(x) : x \in rows}
\* The money columns of a header row as the store keeps them.
HeaderCols(price) ==
    [subtotal |-> Numeric(price.subtotal), tax |-> Numeric(price.tax),
     discount |-> Numeric(price.discount), total |-> Numeric(price.total)]
\* The unit_price and quantity columns of a line-item row.
ItemCols(item) == [unit_price |-> Numeric(Amount(item.price)), quantity |-> item.quantity]
\* uuid.Parse(s) succeeds, for the canonical 36-character form: groups of
\* 8, 4, 4, 4 and 12 hexadecimal digits joined by hyphens.
HexDigits == {"0", "1", "2", "3", "4", "5", "6", "7", "8", "9",
              "a", "b", "c", "d", "e", "f", "A", "B", "C", "D", "E", "F"}
IsUuid(s) ==
    /\ Len(s) = 36
    /\ \A i \in 1..36 :
          IF i \in {9, 14, 19, 24} THEN SubSeq(s, i, i) = "-"
                                   ELSE SubSeq(s, i, i) \in HexDigits
\* customerUUID (main.go lines 275-283): valid when req.CustomerID is not
\* empty and parses, else the zero value, which is stored as NULL.
CustomerUUID(body) ==
    IF body.customer # "" /\ IsUuid(body.customer)
    THEN [valid |-> TRUE, id |-> body.customer] ELSE [valid |-> FALSE, id |-> ""]
\* The ids of the rows of customers: no statement of the system inserts one.
CustomerIds == {}
\* transactions.customer_id REFERENCES customers(id): NULL, or the id of a
\* customers row.
ForeignKeyHolds(customer) == ~customer.valid \/ customer.id \in CustomerIds
\* tx.Exec of an INSERT inside the open transaction.
TxExec(d, row) == [d EXCEPT !.rows = @ \cup {row}]
BeginTx(d, id) == [d EXCEPT !.open = @ \cup {id}]
Commit(d, id) == [d EXCEPT !.open = @ \ {id}]
RollbackKeepsRows(d, id) == [d EXCEPT !.open = @ \ {id}]
RollbackDropsAll(d, id) == [rows |-> {}, open |-> d.open \ {id}]
\* The deferred tx.Rollback of a transaction that did not commit.
Rollback(d, id) == [rows |-> {x \in d.rows : x.txn # id}, open |-> d.open \ {id}]

LedgerDataOneId(id, n) == [transaction_id |-> 1, items |-> n]
\* The JSON body of a successful ledger answer (TransactionResponse).
LedgerData(id, n) == [transaction_id |-> id, items |-> n]

\* http.Error(w, ..., status) / the 200 answer: the handler has returned.
Reply(r, s) == [ldg EXCEPT ![r].pc = "replied", ![r].status = s]

\* The handler's state when a POST with the given body reaches it.
Received(body) == [IdleLdg EXCEPT !.pc = "recv", !.n = Len(body.items), !.body = body]

\* processTransactionHandler up to uuid.New() (main.go lines 249-273).
LedgerRecv(r) ==
    /\ ldg[r].pc = "recv"
    /\ IF ldg[r].body.malformed \/ Len(ldg[r].body.items) = 0
       THEN ldg' = Reply(r, 400) /\ UNCHANGED <<nextId, asked>>
       ELSE /\ nextId < MaxTx
            /\ nextId' = nextId + 1
            /\ asked' = [asked EXCEPT ![nextId + 1] = ldg[r].n]
            /\ ldg' = [ldg EXCEPT ![r].pc = "begin", ![r].txn = nextId + 1,
                                  ![r].price = PriceOf(ldg[r].body)]
    /\ UNCHANGED <<gw, db, cache, bus, proc, reg>>

DbOutcomesIgnoreCancel(h) == BOOLEAN
\* Whether a store call made with the handler's ctx can succeed: a call on
\* a cancelled context returns its error, and the connection is closed with
\* its transaction aborted.
DbOutcomes(h) == IF h.cancelled = "no" THEN BOOLEAN ELSE {FALSE}

\* s.db.BeginTx (main.go lines 288-293).
LedgerBegin(r) ==
    /\ ldg[r].pc = "begin"
    /\ \E ok \in DbOutcomes(ldg[r]) :
         IF ok THEN /\ db' = BeginTx(db, ldg[r].txn)
                    /\ ldg' = [ldg EXCEPT ![r].pc = "header"]
               ELSE /\ ldg' = Reply(r, 500)
                    /\ UNCHANGED db
    /\ UNCHANGED <<gw, nextId, asked, cache, bus, proc, reg>>

\* INSERT INTO transactions (main.go lines 308-315).
LedgerInsertHeader(r) ==
    /\ ldg[r].pc = "header"
    /\ \E ok \in IF ForeignKeyHolds(CustomerUUID(ldg[r].body)) THEN DbOutcomes(ldg[r])
                                                              ELSE {FALSE} :
         IF ok THEN /\ db' = TxExec(db, Stored(HeaderRow(ldg[r].txn), HeaderCols(ldg[r].price)))
                    /\ ldg' = [ldg EXCEPT ![r].pc = "items"]
               ELSE /\ db' = Rollback(db, ldg[r].txn)
                    /\ ldg' = Reply(r, 500)
    /\ UNCHANGED <<gw, nextId, asked, cache, bus, proc, reg>>

\* One round of the loop over req.Items (main.go lines 317-333).
LedgerInsertItem(r) ==
    /\ ldg[r].pc = "items"
    /\ ldg[r].inserted < ldg[r].n
    /\ \E ok \in DbOutcomes(ldg[r]) :
         IF ok THEN /\ db' = TxExec(db, Stored(ItemRow(ldg[r].txn, ldg[r].inserted + 1),
                                              ItemCols(ldg[r].body.items[ldg[r].inserted + 1])))
                    /\ ldg' = [ldg EXCEPT ![r].inserted = @ + 1]
               ELSE /\ db' = Rollback(db, ldg[r].txn)
                    /\ ldg' = Reply(r, 500)
    /\ UNCHANGED <<gw, nextId, asked, cache, bus, proc, reg>>

\* tx.Commit and the 200 answer (main.go lines 335-345).
LedgerCommit(r) ==
    /\ ldg[r].pc = "items"
    /\ ldg[r].inserted = ldg[r].n
    /\ \E ok \in DbOutcomes(ldg[r]) :
         IF ok THEN /\ db' = Commit(db, ldg[r].txn)
                    /\ ldg' = Reply(r, 200)
               ELSE /\ db' = Rollback(db, ldg[r].txn)
                    /\ ldg' = Reply(r, 500)
    /\ UNCHANGED <<gw, nextId, asked, cache, bus, proc, reg>>

\* SELECT COUNT(*) FROM transactions
StatsCountAllRows(d) == Cardinality({x \in d.rows : x.kind = "header"})
StatsCount(d) == Cardinality({x \in Visible(d) : x.kind = "header"})
\* SELECT COALESCE(SUM(total), 0) FROM transactions, in cents.
StatsRevenue(d) ==
    LET RECURSIVE Sum(_)
        Sum(rows) == IF rows = {} THEN 0
                     ELSE LET x == CHOOSE y \in rows : TRUE
                          IN x.val.total + Sum(rows \ {x})
    IN Sum({x \in Visible(d) : x.kind = "header"})
\* avg := 0.0; if count > 0 { avg = revenue / float64(count) }, the
\* quotient kept as a fraction.
AverageOrderValue(count, revenue) ==
    IF count > 0 THEN [num |-> revenue, den |-> count] ELSE [num |-> 0, den |-> 1]
\* The body http.Error writes when the query failed.
StatsFailure == [text |-> "Failed to fetch statistics"]
\* The ServiceStats statsHandler encodes.
StatsBody(d) ==
    [total_transactions |-> StatsCount(d), total_revenue |-> StatsRevenue(d),
     average_order_value |-> AverageOrderValue(StatsCount(d), StatsRevenue(d))]

\* GET /api/v1/stats reaches statsHandler: the 200 header is written before
\* the query is made (main.go lines 387-388).
StatsArrive(r) ==
    /\ ldg[r].pc = "idle"
    /\ ldg' = [ldg EXCEPT ![r].pc = "stats", ![r].status = 200]
    /\ UNCHANGED <<gw, db, nextId, asked, cache, bus, proc, reg>>

\* statsHandler after QueryRow(...).Scan settled (main.go lines 395-415).
StatsAnswer(r) ==
    /\ ldg[r].pc = "stats"
    /\ \E ok \in BOOLEAN :
         ldg' = [ldg EXCEPT ![r].pc = "replied",
                            ![r].out = IF ok THEN StatsBody(db) ELSE StatsFailure]
    /\ UNCHANGED <<gw, db, nextId, asked, cache, bus, proc, reg>>

\* ------------------------------------------------------------- cache store
\* JSON.stringify(value): the string redis stores.
Stringify(v) == [json |-> v]
\* JSON.parse(string)
Parse(s) == s.json
TruthyNever(v) == FALSE
TruthyOfNull(v) == TRUE
\* JavaScript truthiness of a value the gateway tests.
Truthy(v) == v # Null
\* cache.get: redis GET, then `result ? JSON.parse(result) : null`.
CacheGet(c, k) == IF c[k].present THEN Parse(c[k].str) ELSE Null
CacheSetDropsValue(c, k, v, ttl) == c
CacheSetKeepsFirst(c, k, v, ttl) ==
    IF c[k].present THEN c
    ELSE [c EXCEPT ![k] = [present |-> TRUE, str |-> Stringify(v), ttl |-> ttl]]
\* cache.set: redis SET key JSON.stringify(value) EX ttl.
CacheSet(c, k, v, ttl) == [c EXCEPT ![k] = [present |-> TRUE, str |-> Stringify(v), ttl |-> ttl]]
\* cache.del: redis DEL key.
CacheDel(c, k) == [c EXCEPT ![k] = NoEntry]

FetchTransactionFindsNone(d, id) == Null
\* fetchTransactionFromPostgres(id): null, or the record built from the rows.
FetchTransaction(d, id) ==
    IF HeaderRow(id) \in Keys(Visible(d))
    THEN [transactionId |-> id,
          items |-> Cardinality({x \in Visible(d) : x.txn = id /\ x.kind = "item"})]
    ELSE Null

\* ----------------------------------------------------------------- gateway
\* The body a client of the gateway posts: n items of 10.00, quantity 1, no
\* discount code. The gateway forwards it as it is.
ClientBody(n) ==
    [malformed |-> FALSE, items |-> [i \in 1..n |-> [price |-> 1000, quantity |-> 1]],
     code |-> "", customer |-> ""]

\* The handler of the route starts: its code up to the first await.
RouteEnter(r) ==
    /\ gw[r].pc = "handler"
    /\ LET route == gw[r].route IN
       CASE route = "health" ->
              gw' = Step(r, "healthWait", "dbQuery") /\ UNCHANGED ldg
         [] route = "authValidate" ->
              gw' = Respond(gw, r, 200, [valid |-> TRUE], "-") /\ UNCHANGED ldg
         [] route \in {"goGet", "goPost", "pyGet", "pyPost"} ->
              gw' = Step(r, "proxyWait", "peerCall") /\ UNCHANGED ldg
         [] route = "txGet" ->
              /\ gw' = IF gw[r].arg = BadId
                       THEN Respond(gw, r, 400, ErrBody("Invalid transaction ID format"), "-")
                       ELSE Step(r, "cacheGet", "cacheGet")
              /\ UNCHANGED ldg
         [] route = "aggregate" ->
              gw' = Step(r, "cacheGet", "cacheGet") /\ UNCHANGED ldg
         [] route = "create" ->
              /\ gw' = Step(r, "ledgerWait", "ledgerCall")
              /\ ldg' = [ldg EXCEPT ![r] = Received(ClientBody(gw[r].arg))]
    /\ UNCHANGED <<db, nextId, asked, cache, bus, proc, reg>>

\* GET /health after database.query('SELECT 1') settled (server.js 197-220).
HealthAnswer(r) ==
    /\ gw[r].pc = "healthWait"
    /\ \E ok \in BOOLEAN :
         gw' = Respond(gw, r, 200, [status |-> IF ok THEN "healthy" ELSE "degraded"], "-")
    /\ UNCHANGED <<ldg, db, nextId, asked, cache, bus, proc, reg>>

\* Statuses a peer service answers with; 0 stands for no answer received
\* (connection refused or reset).
PeerStatuses == {200, 201, 404, 500, 0}

AxiosResolvesAlways(status) == TRUE
\* axios resolves the call for a 2xx answer and throws otherwise.
AxiosResolves(status) == status >= 200 /\ status < 300

ErrorStatusSwallows(status) == IF status = 0 THEN 200 ELSE status
\* error.response?.status || 500
ErrorStatus(status) == IF status = 0 THEN 500 ELSE status

\* What a collaborator sent: its status and its body, or nothing.
PeerAnswer(status) ==
    [status |-> status, body |-> IF status = 0 THEN Null ELSE [peer |-> status]]
\* The error field of a proxy route's catch block.
ProxyError(route) ==
    ErrBody(IF route \in {"goGet", "goPost"} THEN "Go service unavailable"
                                             ELSE "Python service unavailable")

\* GET|POST /api/v1/go/* and /api/v1/python/* after the proxied call
\* settled (server.js 266-292, 327-353); data keeps what the collaborator
\* sent.
ProxyAnswer(r) ==
    /\ gw[r].pc = "proxyWait"
    /\ \E status \in PeerStatuses :
         LET g == [gw EXCEPT ![r].data = PeerAnswer(status)] IN
         gw' = IF AxiosResolves(status)
               THEN Respond(g, r, 200, PeerAnswer(status).body, "-")
               ELSE Respond(g, r, ErrorStatus(status), ProxyError(gw[r].route), "-")
    /\ UNCHANGED <<ldg, db, nextId, asked, cache, bus, proc, reg>>

\* The ledger call fails with no answer: the service is not reached, or
\* the connection breaks before its answer arrives.
LedgerConnFail(r) ==
    /\ gw[r].pc = "ledgerWait"
    /\ ldg[r].pc \in {"recv", "replied"}
    /\ gw' = Respond(Step(r, "ledgerWait", "ledgerFail"), r, 500,
                     ErrBody("Failed to process transaction"), "-")
    /\ ldg' = [ldg EXCEPT ![r] = IdleLdg]
    /\ UNCHANGED <<db, nextId, asked, cache, bus, proc, reg>>

\* POST /api/v1/process-transaction after the ledger call settled
\* (server.js lines 360-364 and 389-395).
LedgerAnswer(r) ==
    /\ gw[r].pc = "ledgerWait"
    /\ ldg[r].pc = "replied"
    /\ gw' = IF AxiosResolves(ldg[r].status)
             THEN [gw EXCEPT ![r].pc = "analyticsWait",
                             ![r].data = LedgerData(ldg[r].txn, ldg[r].n),
                             ![r].log = @ \o <<"ledgerOk", "analyticsCall">>]
             ELSE Respond(Step(r, "ledgerWait", "ledgerFail"), r, ErrorStatus(ldg[r].status),
                          ErrBody("Failed to process transaction"), "-")
    /\ ldg' = [ldg EXCEPT ![r] = IdleLdg]
    /\ UNCHANGED <<db, nextId, asked, cache, bus, proc, reg>>

\* ... after the analytics call settled (server.js lines 363-377).
AnalyticsAnswer(r) ==
    /\ gw[r].pc = "analyticsWait"
    /\ \E ok \in BOOLEAN :
         gw' = [gw EXCEPT ![r].pc = "publishWait",
                          ![r].log = @ \o <<IF ok THEN "analyticsOk" ELSE "analyticsFail",
                                            "publishCall">>]
    /\ UNCHANGED <<ldg, db, nextId, asked, cache, bus, proc, reg>>

\* response.data?.transactionId
HasTransactionId(data) == "transactionId" \in DOMAIN data

CreateResponseFailsOnPublish(data, log) ==
    IF Has(log, "publishFail")
    THEN [status |-> 500, body |-> ErrBody("Failed to process transaction"), xcache |-> "-"]
    ELSE [status |-> 200, body |-> data, xcache |-> "-"]
\* res.json(response.data)
CreateResponse(data, log) == [status |-> 200, body |-> data, xcache |-> "-"]

AfterPublishRetries(log, ok) ==
    IF ok THEN Append(log, "publishOk") ELSE log \o <<"publishFail", "publishCall">>
\* The log once messageBus.publish settled: resolved, or rejected and caught
\* by the handler, which only logs the error (server.js lines 378-380).
AfterPublish(log, ok) == Append(log, IF ok THEN "publishOk" ELSE "publishFail")

\* ... after the publish settled: the invalidation and the answer
\* (server.js lines 378-388).
PublishAnswer(r) ==
    /\ gw[r].pc = "publishWait"
    /\ \E ok \in BOOLEAN :
         LET log1 == AfterPublish(gw[r].log, ok)
             inv == HasTransactionId(gw[r].data)
             log2 == IF inv THEN Append(log1, "cacheDel") ELSE log1
         IN /\ gw' = [gw EXCEPT ![r].pc = "done", ![r].log = Append(log2, "respond"),
                                ![r].resp = CreateResponse(gw[r].data, log2)]
            /\ cache' = IF inv THEN CacheDel(cache, gw[r].data.transactionId) ELSE cache
    /\ UNCHANGED <<ldg, db, nextId, asked, bus, proc, reg>>

\* The key a cached route passes to cache.wrap.
WrapKey(g) == IF g.route = "aggregate" THEN AggKey ELSE g.arg
\* The TTL it passes.
WrapTtl(g) == IF g.route = "aggregate" THEN AGGREGATE_CACHE_TTL ELSE TRANSACTION_CACHE_TTL
\* The body of the 500 its catch block sends.
WrapError(g) ==
    ErrBody(IF g.route = "aggregate" THEN "Failed to aggregate services"
                                     ELSE "Failed to fetch transaction")

\* cache.wrap after cache.get settled (cache.js lines 50-55). On a miss the
\* fetch function starts: the store query of a transaction read, or the
\* four calls of the aggregate, issued together.
CacheGetAnswer(r) ==
    /\ gw[r].pc = "cacheGet"
    /\ \E ok \in BOOLEAN :
         LET cached == CacheGet(cache, WrapKey(gw[r])) IN
         gw' = IF ~ok
               THEN Respond(Step(r, "cacheGet", "cacheGetFail"), r, 500, WrapError(gw[r]), "-")
               ELSE IF Truthy(cached)
                    THEN Respond([gw EXCEPT ![r].saw = cache[WrapKey(gw[r])]], r, 200, cached, "HIT")
                    ELSE IF gw[r].route = "aggregate"
                         THEN [gw EXCEPT ![r].pc = "fanout", ![r].saw = cache[WrapKey(gw[r])],
                                         ![r].calls = [c \in Collabs |-> "pending"],
                                         ![r].log = Append(@, "peerCall")]
                         ELSE [gw EXCEPT ![r].pc = "fetch", ![r].saw = cache[WrapKey(gw[r])],
                                         ![r].log = Append(@, "fetch")]
    /\ UNCHANGED <<ldg, db, nextId, asked, cache, bus, proc, reg>>

\* cache.wrap after fetchFn settled (cache.js lines 55-56).
FetchAnswer(r) ==
    /\ gw[r].pc = "fetch"
    /\ \E ok \in BOOLEAN :
         gw' = IF ~ok
               THEN Respond(Step(r, "fetch", "fetchFail"), r, 500,
                            ErrBody("Failed to fetch transaction"), "-")
               ELSE [gw EXCEPT ![r].pc = "cacheSet", ![r].data = FetchTransaction(db, gw[r].arg),
                               ![r].log = Append(@, "cacheSet")]
    /\ UNCHANGED <<ldg, db, nextId, asked, cache, bus, proc, reg>>

\* The JSON a collaborator's statistics endpoint answers with.
PeerData(c, d) == IF c = "go_service" THEN StatsBody(d) ELSE [from |-> c]
\* The bodies a 2xx answer of collaborator c can carry: the ledger's
\* statsHandler has written its 200 before it queries the store, so its
\* answer is the statistics or the text of the failed query.
PeerPayloads(c, d) ==
    IF c = "go_service" THEN {PeerData(c, d), StatsFailure} ELSE {PeerData(c, d)}
\* One slot of the aggregate: the payload of a fulfilled call, the marker
\* of a rejected one.
SlotOf(outcome, payload) ==
    IF outcome = "fulfilled" THEN payload ELSE ErrBody("Service unavailable")
\* The object the aggregate's fetch function returns (its timestamp left out).
AggregateBody(calls, got) ==
    [service |-> "js-gateway",
     go_service |-> SlotOf(calls["go_service"], got["go_service"]),
     python_service |-> SlotOf(calls["python_service"], got["python_service"]),
     csharp_risk_service |-> SlotOf(calls["csharp_risk_service"], got["csharp_risk_service"]),
     dotnet_service |-> SlotOf(calls["dotnet_service"], got["dotnet_service"])]

\* One of the four axios.get calls settles (server.js lines 231-234).
AggSettle(r, c) ==
    /\ gw[r].pc = "fanout"
    /\ gw[r].calls[c] = "pending"
    /\ \E status \in PeerStatuses :
         IF AxiosResolves(status)
         THEN \E payload \in PeerPayloads(c, db) :
                 gw' = [gw EXCEPT ![r].calls[c] = "fulfilled", ![r].got[c] = payload]
         ELSE gw' = [gw EXCEPT ![r].calls[c] = "rejected"]
    /\ UNCHANGED <<ldg, db, nextId, asked, cache, bus, proc, reg>>

\* Promise.allSettled resolves, the fetch function returns its object and
\* cache.wrap issues cache.set (server.js 230-253, cache.js 55-56).
AggGather(r) ==
    /\ gw[r].pc = "fanout"
    /\ \A c \in Collabs : gw[r].calls[c] # "pending"
    /\ gw' = [gw EXCEPT ![r].pc = "cacheSet", ![r].data = AggregateBody(gw[r].calls, gw[r].got),
                        ![r].log = Append(@, "cacheSet")]
    /\ UNCHANGED <<ldg, db, nextId, asked, cache, bus, proc, reg>>

\* cache.wrap after cache.set settled, and the handler's answer
\* (cache.js lines 56-57, server.js lines 255-260 and 311-321).
CacheSetAnswer(r) ==
    /\ gw[r].pc = "cacheSet"
    /\ \E ok \in BOOLEAN :
         IF ~ok
         THEN /\ gw' = Respond(Step(r, "cacheSet", "cacheSetFail"), r, 500, WrapError(gw[r]), "-")
              /\ UNCHANGED cache
         ELSE /\ cache' = CacheSet(cache, WrapKey(gw[r]), gw[r].data, WrapTtl(gw[r]))
              /\ gw' = IF Truthy(gw[r].data) \/ gw[r].route = "aggregate"
                       THEN Respond(gw, r, 200, gw[r].data, "MISS")
                       ELSE Respond(gw, r, 404, ErrBody("Transaction not found"), "MISS")
    /\ UNCHANGED <<ldg, db, nextId, asked, bus, proc, reg>>

\* The TTL of an entry runs out.
Expire(k) ==
    /\ cache[k].present
    /\ cache' = [cache EXCEPT ![k] = NoEntry]
    /\ UNCHANGED <<gw, ldg, db, nextId, asked, bus, proc, reg>>

\* The answer has gone out; the slot serves the next request.
Finish(r) ==
    /\ gw[r].pc = "done"
    /\ gw' = [gw EXCEPT ![r] = IdleGw]
    /\ UNCHANGED <<ldg, db, nextId, asked, cache, bus, proc, reg>>

Next ==
    \/ \E r \in Reqs :
         \/ Start(r) \/ AuthLocal(r) \/ AuthRemoteAnswer(r) \/ RouteEnter(r)
         \/ HealthAnswer(r) \/ ProxyAnswer(r)
         \/ LedgerRecv(r) \/ LedgerBegin(r) \/ LedgerInsertHeader(r)
         \/ LedgerInsertItem(r) \/ LedgerCommit(r)
         \/ LedgerConnFail(r) \/ LedgerAnswer(r) \/ AnalyticsAnswer(r) \/ PublishAnswer(r)
         \/ CacheGetAnswer(r) \/ FetchAnswer(r) \/ CacheSetAnswer(r)
         \/ Finish(r)
    \/ \E k \in CacheKeys : Expire(k)

Spec == Init /\ [][Next]_vars

\* Every step but the answers of the analytics service and of the event
\* channel, which those collaborators may never give.
BoundedStep ==
    \/ \E r \in Reqs :
         \/ Start(r) \/ AuthLocal(r) \/ AuthRemoteAnswer(r) \/ RouteEnter(r)
         \/ HealthAnswer(r) \/ ProxyAnswer(r)
         \/ LedgerRecv(r) \/ LedgerBegin(r) \/ LedgerInsertHeader(r)
         \/ LedgerInsertItem(r) \/ LedgerCommit(r)
         \/ LedgerConnFail(r) \/ LedgerAnswer(r)
         \/ CacheGetAnswer(r) \/ FetchAnswer(r) \/ CacheSetAnswer(r)
         \/ Finish(r)
    \/ \E k \in CacheKeys : Expire(k)

\* The node event loop and the Go runtime run every continuation that is
\* ready, and every collaborator but the two above answers.
FairSpec == Spec /\ WF_vars(BoundedStep)

\* ------------------------------------------- the ledger service by itself
\* Replicas of the ledger service, each serving one request at a time,
\* all on the same store.
Replicas == {1, 2}

\* Bodies posted to POST /api/v1/process-transaction of the service.
MalformedBody == [malformed |-> TRUE, items |-> <<>>, code |-> "", customer |-> ""]
ZeroQuantityBody ==
    [malformed |-> FALSE, items |-> <<[price |-> 1000, quantity |-> 0]>>, code |-> "", customer |-> ""]
WelcomeBody ==
    [malformed |-> FALSE, items |-> <<[price |-> 2499, quantity |-> 4]>>, code |-> "WELCOME", customer |-> ""]
ExampleBody ==
    [malformed |-> FALSE,
     items |-> <<[price |-> 69900, quantity |-> 1], [price |-> 2499, quantity |-> 4]>>,
     code |-> "SAVE10", customer |-> ""]
\* One item bought and one returned (a negative quantity).
ReturnBody ==
    [malformed |-> FALSE,
     items |-> <<[price |-> 1000, quantity |-> 1], [price |-> 500, quantity |-> -1]>>,
     code |-> "", customer |-> ""]
\* One item, with a customer_id that is not a UUID, and with one that is.
TextCustomerBody ==
    [malformed |-> FALSE, items |-> <<[price |-> 1000, quantity |-> 1]>>, code |-> "",
     customer |-> "customer-42"]
UuidCustomerBody ==
    [malformed |-> FALSE, items |-> <<[price |-> 1000, quantity |-> 1]>>, code |-> "",
     customer |-> "3f2b8c1e-0d4a-4b6f-9a77-5c1d2e3f4a5b"]
LedgerBodies ==
    {MalformedBody, NoBody, ZeroQuantityBody, WelcomeBody, ExampleBody,
     ReturnBody, TextCustomerBody, UuidCustomerBody}

LedgerInit ==
    /\ gw = [r \in Reqs |-> IdleGw]
    /\ ldg = [w \in Replicas |-> IdleLdg]
    /\ db = [rows |-> {}, open |-> {}]
    /\ nextId = 0
    /\ asked = [id \in TxIds |-> 0]
    /\ cache = [k \in CacheKeys |-> NoEntry]
    /\ bus = NoBus
    /\ proc = NoProc
    /\ reg = NoReg

\* A create request reaches processTransactionHandler of replica w.
LedgerArrive(w) ==
    /\ ldg[w].pc = "idle"
    /\ \E body \in LedgerBodies : ldg' = [ldg EXCEPT ![w] = Received(body)]
    /\ UNCHANGED <<gw, db, nextId, asked, cache, bus, proc, reg>>

\* The answer has gone out; the replica serves the next request.
LedgerReturn(w) ==
    /\ ldg[w].pc = "replied"
    /\ ldg' = [ldg EXCEPT ![w] = IdleLdg]
    /\ UNCHANGED <<gw, db, nextId, asked, cache, bus, proc, reg>>

\* The client of the create request replica w is handling goes away:
\* r.Context() is cancelled, and with it the ctx of the store calls.
ClientDisconnect(w) ==
    /\ ldg[w].pc \in {"recv", "begin", "header", "items"}
       \/ (ldg[w].pc = "replied" /\ ldg[w].out = Null)
    /\ ldg[w].cancelled = "no"
    /\ ldg' = [ldg EXCEPT ![w].cancelled = ldg[w].pc]
    /\ UNCHANGED <<gw, db, nextId, asked, cache, bus, proc, reg>>

\* The process of replica w is restarted: what its handler held is gone,
\* and the store aborts the transaction of the connection it loses.
Restart(w) ==
    /\ ldg[w].pc # "idle"
    /\ ldg' = [ldg EXCEPT ![w] = IdleLdg]
    /\ db' = IF ldg[w].txn \in db.open THEN Rollback(db, ldg[w].txn) ELSE db
    /\ UNCHANGED <<gw, nextId, asked, cache, bus, proc, reg>>

LedgerNext ==
    \E w \in Replicas :
       \/ LedgerArrive(w) \/ LedgerRecv(w) \/ LedgerBegin(w) \/ LedgerInsertHeader(w)
       \/ LedgerInsertItem(w) \/ LedgerCommit(w) \/ LedgerReturn(w)
       \/ StatsArrive(w) \/ StatsAnswer(w) \/ Restart(w) \/ ClientDisconnect(w)

LedgerSpec == LedgerInit /\ [][LedgerNext]_vars

\* ------------------------------------------------------ the pricing alone
\* Items and discount codes of the requests priced: the two items of the
\* documented example, a zero and a negative quantity, a negative price, a
\* price of five cents; the four codes of the table, none, and two codes
\* that are not in it.
ItemChoices ==
    {[price |-> 69900, quantity |-> 1], [price |-> 2499, quantity |-> 4],
     [price |-> 1000, quantity |-> 0], [price |-> 1000, quantity |-> 0 - 1],
     [price |-> 0 - 500, quantity |-> 2], [price |-> 5, quantity |-> 1]}
CodeChoices == DiscountCodes \cup {"", "OFFICEUP", "save10"}
PriceBodies ==
    {[malformed |-> FALSE, items |-> items, code |-> code, customer |-> ""] :
        items \in UNION {[1..n -> ItemChoices] : n \in 0..MaxItems}, code \in CodeChoices}

\* A request with one of these bodies has reached the handler.
PriceInit ==
    /\ gw = [r \in Reqs |-> IdleGw]
    /\ \E body \in PriceBodies : ldg = [r \in Reqs |-> Received(body)]
    /\ db = [rows |-> {}, open |-> {}]
    /\ nextId = 0
    /\ asked = [id \in TxIds |-> 0]
    /\ cache = [k \in CacheKeys |-> NoEntry]
    /\ bus = NoBus
    /\ proc = NoProc
    /\ reg = NoReg

PriceNext == \E r \in Reqs : LedgerRecv(r)

PriceSpec == PriceInit /\ [][PriceNext]_vars

\* ------------------------------------------------------ the proxy routes
ProxyRoutes == {"goGet", "goPost", "pyGet", "pyPost"}

ProxyStart(r) == Arrive(r, ProxyRoutes)

ProxyNext ==
    \E r \in Reqs :
       \/ ProxyStart(r) \/ AuthLocal(r) \/ AuthRemoteAnswer(r) \/ RouteEnter(r)
       \/ ProxyAnswer(r) \/ Finish(r)

ProxySpec == Init /\ [][ProxyNext]_vars

\* -------------------------------------------------- the aggregate route
AggRoutes == {"aggregate"}

AggStart(r) == Arrive(r, AggRoutes)

AggNext ==
    \/ \E r \in Reqs :
         \/ AggStart(r) \/ AuthLocal(r) \/ AuthRemoteAnswer(r) \/ RouteEnter(r)
         \/ CacheGetAnswer(r) \/ (\E c \in Collabs : AggSettle(r, c)) \/ AggGather(r)
         \/ CacheSetAnswer(r) \/ Finish(r)
    \/ \E k \in CacheKeys : Expire(k)

AggSpec == Init /\ [][AggNext]_vars

\* Every step but the settling of the call to one collaborator, which never
\* answers: the call has no timeout.
AggBoundedStep ==
    \/ \E r \in Reqs :
         \/ AggStart(r) \/ AuthLocal(r) \/ AuthRemoteAnswer(r) \/ RouteEnter(r)
         \/ CacheGetAnswer(r)
         \/ (\E c \in Collabs \ {"python_service"} : AggSettle(r, c)) \/ AggGather(r)
         \/ CacheSetAnswer(r) \/ Finish(r)
    \/ \E k \in CacheKeys : Expire(k)

AggFairSpec == AggSpec /\ WF_vars(AggBoundedStep)

\* ------------------------------------ the aggregate beside the create route
StaleRoutes == {"aggregate", "create"}

StaleStart(r) == Arrive(r, StaleRoutes)

StaleNext ==
    \/ \E r \in Reqs :
         \/ StaleStart(r) \/ AuthLocal(r) \/ AuthRemoteAnswer(r) \/ RouteEnter(r)
         \/ LedgerRecv(r) \/ LedgerBegin(r) \/ LedgerInsertHeader(r)
         \/ LedgerInsertItem(r) \/ LedgerCommit(r)
         \/ LedgerConnFail(r) \/ LedgerAnswer(r) \/ AnalyticsAnswer(r) \/ PublishAnswer(r)
         \/ CacheGetAnswer(r) \/ (\E c \in Collabs : AggSettle(r, c)) \/ AggGather(r)
         \/ CacheSetAnswer(r) \/ Finish(r)
    \/ \E k \in CacheKeys : Expire(k)

StaleSpec == Init /\ [][StaleNext]_vars

\* ------------------------------------------ two reads in flight together
\* Two requests the gateway's event loop handles at once, beside a client
\* of the ledger service that creates transactions.
RaceReqs == {1, 2}
RaceWriter == 1
\* The transaction both requests read.
RaceKey == 1

RaceInit ==
    /\ gw = [r \in RaceReqs |-> IdleGw]
    /\ ldg = [w \in {RaceWriter} |-> IdleLdg]
    /\ db = [rows |-> {}, open |-> {}]
    /\ nextId = 0
    /\ asked = [id \in TxIds |-> 0]
    /\ cache = [k \in CacheKeys |-> NoEntry]
    /\ bus = NoBus
    /\ proc = NoProc
    /\ reg = NoReg

\* GET /api/v1/transactions/<RaceKey> with a valid token arrives.
RaceStart(r) ==
    /\ gw[r].pc = "idle"
    /\ gw' = [gw EXCEPT ![r] = [IdleGw EXCEPT !.pc = "auth", !.route = "txGet",
                                              !.cred = "valid", !.arg = RaceKey]]
    /\ UNCHANGED <<ldg, db, nextId, asked, cache, bus, proc, reg>>

\* A create request of one item reaches the ledger service.
RaceCreate(w) ==
    /\ ldg[w].pc = "idle"
    /\ ldg' = [ldg EXCEPT ![w] = Received(ClientBody(1))]
    /\ UNCHANGED <<gw, db, nextId, asked, cache, bus, proc, reg>>

RaceNext ==
    \/ \E r \in RaceReqs :
         \/ RaceStart(r) \/ AuthLocal(r) \/ RouteEnter(r)
         \/ CacheGetAnswer(r) \/ FetchAnswer(r) \/ CacheSetAnswer(r) \/ Finish(r)
    \/ RaceCreate(RaceWriter) \/ LedgerRecv(RaceWriter) \/ LedgerBegin(RaceWriter)
    \/ LedgerInsertHeader(RaceWriter) \/ LedgerInsertItem(RaceWriter)
    \/ LedgerCommit(RaceWriter) \/ LedgerReturn(RaceWriter)
    \/ \E k \in CacheKeys : Expire(k)

RaceSpec == RaceInit /\ [][RaceNext]_vars

\* ---------------------------------------- two creates of the same payload
\* Two create requests the gateway handles at once: a client and its retry.
DupReqs == {1, 2}

DupInit ==
    /\ gw = [r \in DupReqs |-> IdleGw]
    /\ ldg = [r \in DupReqs |-> IdleLdg]
    /\ db = [rows |-> {}, open |-> {}]
    /\ nextId = 0
    /\ asked = [id \in TxIds |-> 0]
    /\ cache = [k \in CacheKeys |-> NoEntry]
    /\ bus = NoBus
    /\ proc = NoProc
    /\ reg = NoReg

\* POST /api/v1/process-transaction with a valid token and the one-item
\* payload arrives.
DupStart(r) ==
    /\ gw[r].pc = "idle"
    /\ gw' = [gw EXCEPT ![r] = [IdleGw EXCEPT !.pc = "auth", !.route = "create",
                                              !.cred = "valid", !.arg = 1]]
    /\ UNCHANGED <<ldg, db, nextId, asked, cache, bus, proc, reg>>

DupNext ==
    \E r \in DupReqs :
       \/ DupStart(r) \/ AuthLocal(r) \/ RouteEnter(r)
       \/ LedgerRecv(r) \/ LedgerBegin(r) \/ LedgerInsertHeader(r)
       \/ LedgerInsertItem(r) \/ LedgerCommit(r)
       \/ LedgerConnFail(r) \/ LedgerAnswer(r) \/ AnalyticsAnswer(r) \/ PublishAnswer(r)
       \/ Finish(r)

DupSpec == DupInit /\ [][DupNext]_vars

\* ---------------------------------------------------- the message bus alone
\* Connection i and the channel created on it are known by the number i;
\* 0 stands for the undefined module variable. state[i] is "none" (not
\* opened yet), "connected" (connection open, no channel yet), "open"
\* (channel open) or "closed".
Publishers == BusCallers \ {"warmup"}

\* bus with the call of c at position p.
BusStep(c, p) == [bus EXCEPT !.call[c].pc = p]

\* The app.listen callback calls ensureChannel (server.js line 564), or a
\* create request calls publish, which calls ensureChannel (line 44).
BusCall(c) ==
    /\ bus.call[c].pc = "idle"
    /\ c = "warmup" => ~bus.listened
    /\ bus' = [BusStep(c, "check") EXCEPT !.listened = @ \/ c = "warmup"]
    /\ UNCHANGED <<reqVars, proc, reg>>

\* ensureChannel up to its first await (messageBus.js lines 23-27).
EnsureCheck(c) ==
    /\ bus.call[c].pc = "check"
    /\ bus' = IF bus.channel # 0
              THEN [bus EXCEPT !.call[c] = [pc |-> "got", got |-> bus.channel]]
              ELSE BusStep(c, "connect")
    /\ UNCHANGED <<reqVars, proc, reg>>

\* amqp.connect settles (line 27); on success the module variable is
\* assigned and createConfirmChannel is called on it (line 31).
ConnectSettle(c) ==
    /\ bus.call[c].pc = "connect"
    /\ \E ok \in IF bus.opened < MaxConn THEN BOOLEAN ELSE {FALSE} :
         bus' = IF ok
                THEN [bus EXCEPT !.opened = @ + 1, !.connection = bus.opened + 1,
                                 !.state[bus.opened + 1] = "connected",
                                 !.call[c] = [pc |-> "create", got |-> bus.opened + 1]]
                ELSE BusStep(c, "failed")
    /\ UNCHANGED <<reqVars, proc, reg>>

\* createConfirmChannel settles (line 31); on success the module variable
\* is assigned and assertExchange is called on it (line 35).
ChannelSettle(c) ==
    /\ bus.call[c].pc = "create"
    /\ LET own == bus.call[c].got IN
       \E ok \in IF bus.state[own] = "connected" THEN BOOLEAN ELSE {FALSE} :
         bus' = IF ok
                THEN [bus EXCEPT !.channel = own, !.state[own] = "open",
                                 !.call[c].pc = "topology"]
                ELSE BusStep(c, "failed")
    /\ UNCHANGED <<reqVars, proc, reg>>

\* The exchange, queue and binding calls settle (lines 35-37), each made
\* on the module variable as it is then; ensureChannel returns the module
\* variable (line 40).
TopologySettle(c) ==
    /\ bus.call[c].pc = "topology"
    /\ \E ok \in IF bus.state[bus.channel] = "open" THEN BOOLEAN ELSE {FALSE} :
         bus' = IF ok
                THEN [bus EXCEPT !.call[c] = [pc |-> "got", got |-> bus.channel]]
                ELSE BusStep(c, "failed")
    /\ UNCHANGED <<reqVars, proc, reg>>

\* publish after ensureChannel resolved: ch.publish and its confirmation
\* (lines 53-75). A closed channel refuses the message.
PublishSettle(c) ==
    /\ c \in Publishers
    /\ bus.call[c].pc = "got"
    /\ \E ok \in IF bus.state[bus.call[c].got] = "open" THEN BOOLEAN ELSE {FALSE} :
         bus' = BusStep(c, IF ok THEN "published" ELSE "rejected")
    /\ UNCHANGED <<reqVars, proc, reg>>

\* The caller has its result: the warm-up its channel or its error, the
\* create route its resolved or rejected publish.
BusReturn(c) ==
    /\ bus.call[c].pc \in (IF c = "warmup" THEN {"got", "failed"}
                                           ELSE {"published", "rejected", "failed"})
    /\ bus' = [bus EXCEPT !.call[c] = IdleCall]
    /\ UNCHANGED <<reqVars, proc, reg>>

\* The broker or the network closes connection i, and its channel with it;
\* the 'close' and 'error' handlers log (lines 28-29 and 32-33).
BrokerClose(i) ==
    /\ bus.state[i] \in {"connected", "open"}
    /\ bus' = [bus EXCEPT !.state[i] = "closed"]
    /\ UNCHANGED <<reqVars, proc, reg>>

BusNext ==
    \/ \E c \in BusCallers :
         \/ BusCall(c) \/ EnsureCheck(c) \/ ConnectSettle(c) \/ ChannelSettle(c)
         \/ TopologySettle(c) \/ PublishSettle(c) \/ BusReturn(c)
    \/ \E i \in 1..MaxConn : BrokerClose(i)

BusSpec == Init /\ [][BusNext]_vars

\* ------------------------------------------------- the gateway's shutdown
Signals == {"SIGTERM", "SIGINT"}

\* gracefulShutdown(signal) up to Promise.allSettled (server.js lines
\* 572-580): the three close calls are started unless a shutdown already
\* runs.
gracefulShutdown(p) ==
    IF p.shuttingDown THEN p
    ELSE [p EXCEPT !.shuttingDown = TRUE, !.starts = @ + 1, !.closing = Resources]

\* The SIGTERM listener of tracing.js (lines 28-33): sdk.shutdown() is
\* called.
TracingOnSigterm(p) == [p EXCEPT !.sdk = "shuttingDown"]

\* A signal is delivered: node runs the listeners of the signal in the
\* order they were added, tracing.js' first (server.js line 7).
Signal(sig) ==
    /\ proc.exited = "no"
    /\ Len(proc.signals) < MaxSignals
    /\ LET p == [proc EXCEPT !.signals = Append(@, sig)]
       IN  proc' = gracefulShutdown(IF sig = "SIGTERM" THEN TracingOnSigterm(p) ELSE p)
    /\ UNCHANGED <<reqVars, bus, reg>>

\* cache.close(), messageBus.close() or database.closePool() settles,
\* fulfilled or rejected.
CloseSettle(res) ==
    /\ proc.exited = "no"
    /\ res \in proc.closing
    /\ proc' = [proc EXCEPT !.closing = @ \ {res}]
    /\ UNCHANGED <<reqVars, bus, reg>>

\* Promise.allSettled resolves and the finally callback calls
\* server.close (lines 577-583).
ServerClose ==
    /\ proc.exited = "no"
    /\ proc.shuttingDown /\ proc.closing = {} /\ proc.server = "listening"
    /\ proc' = [proc EXCEPT !.server = "closing"]
    /\ UNCHANGED <<reqVars, bus, reg>>

\* The server has closed its last connection: the callback of
\* server.close logs and exits (lines 584-587).
ServerClosed ==
    /\ proc.exited = "no"
    /\ proc.server = "closing"
    /\ proc' = [proc EXCEPT !.server = "closed", !.exited = "gracefulShutdown"]
    /\ UNCHANGED <<reqVars, bus, reg>>

\* sdk.shutdown() settles and its finally callback exits (tracing.js
\* lines 29-32).
SdkSettle ==
    /\ proc.exited = "no"
    /\ proc.sdk = "shuttingDown"
    /\ proc' = [proc EXCEPT !.sdk = "down", !.exited = "tracing"]
    /\ UNCHANGED <<reqVars, bus, reg>>

ShutdownNext ==
    \/ \E sig \in Signals : Signal(sig)
    \/ \E res \in Resources : CloseSettle(res)
    \/ ServerClose \/ ServerClosed \/ SdkSettle

ShutdownSpec == Init /\ [][ShutdownNext]_vars

\* ------------------------------------------- the auth service's register
\* Passwords of the requests: none, one shorter than 8 characters, one of 8.
Passwords == {"", "short", "longenough"}

\* reg with the registration of slot r answered with status s.
RegReply(r, s) == [reg EXCEPT !.h[r].pc = "replied", !.h[r].status = s]

\* POST /api/v1/register arrives (auth-service/server.js line 37).
RegArrive(r) ==
    /\ reg.h[r].pc = "idle"
    /\ \E u \in Usernames \cup {""}, e \in Emails \cup {""}, pw \in Passwords :
         reg' = [reg EXCEPT !.h[r] = [pc |-> "check", username |-> u, email |-> e,
                                     password |-> pw, status |-> 0]]
    /\ UNCHANGED <<reqVars, bus, proc>>

\* users.has(username) || Array.from(users.values()).some(u => u.email === email)
UserExists(users, username, email) ==
    users[username] # "" \/ \E u \in Usernames : users[u] = email

\* The handler up to `await bcrypt.hash` (lines 39-56): the validation and
\* the existence check.
RegCheck(r) ==
    /\ reg.h[r].pc = "check"
    /\ LET q == reg.h[r] IN
       reg' = IF q.username = "" \/ q.email = "" \/ q.password = "" THEN RegReply(r, 400)
              ELSE IF Len(q.password) < 8 THEN RegReply(r, 400)
              ELSE IF UserExists(reg.users, q.username, q.email) THEN RegReply(r, 409)
              ELSE [reg EXCEPT !.h[r].pc = "hash"]
    /\ UNCHANGED <<reqVars, bus, proc>>

\* bcrypt.hash settles: users.set and the 201 (lines 58-69), or the catch
\* block's 500 (lines 70-73).
RegHashed(r) ==
    /\ reg.h[r].pc = "hash"
    /\ \E ok \in IF Len(reg.accepted) < MaxRegs THEN BOOLEAN ELSE {FALSE} :
         reg' = IF ok
                THEN [RegReply(r, 201) EXCEPT
                         !.users[reg.h[r].username] = reg.h[r].email,
                         !.accepted = Append(@, [username |-> reg.h[r].username,
                                                 email |-> reg.h[r].email])]
                ELSE RegReply(r, 500)
    /\ UNCHANGED <<reqVars, bus, proc>>

\* The answer has gone out.
RegReturn(r) ==
    /\ reg.h[r].pc = "replied"
    /\ reg' = [reg EXCEPT !.h[r] = IdleReg]
    /\ UNCHANGED <<reqVars, bus, proc>>

RegNext == \E r \in RegReqs : RegArrive(r) \/ RegCheck(r) \/ RegHashed(r) \/ RegReturn(r)

RegSpec == Init /\ [][RegNext]_vars

\* ------------------------------------------- the middleware called directly
\* The requests the middleware's unit tests build: a path, a header, no
\* route behind it.
UnitRoutes == {"unitHealth", "unitMetrics", "unitAuthLogin", "unitAuthBare", "unitTest"}

\* authenticateToken(req, res, next) is called with a request of the tests.
UnitStart(r) ==
    /\ gw[r].pc = "idle"
    /\ \E route \in UnitRoutes, cred \in Creds :
         gw' = [gw EXCEPT ![r] = [IdleGw EXCEPT !.pc = "auth", !.route = route, !.cred = cred]]
    /\ UNCHANGED <<ldg, db, nextId, asked, cache, bus, proc, reg>>

\* next is the tests' jest.fn(): it records the call and returns.
MockNext(r) ==
    /\ gw[r].pc = "handler"
    /\ gw[r].route \in UnitRoutes
    /\ gw' = [gw EXCEPT ![r].pc = "done"]
    /\ UNCHANGED <<ldg, db, nextId, asked, cache, bus, proc, reg>>

AuthNext ==
    \E r \in Reqs :
       UnitStart(r) \/ AuthLocal(r) \/ AuthRemoteAnswer(r) \/ MockNext(r) \/ Finish(r)

AuthSpec == Init /\ [][AuthNext]_vars

\* ------------------------------------------------------------------ claims
\* Rows of transaction id a reader of the store sees.
VisibleOf(id) == {RowKey(x) : x \in {y \in Visible(db) : y.txn = id}}
\* The header row and the n line-item rows of transaction id.
FullRows(id, n) == {HeaderRow(id)} \cup {ItemRow(id, i) : i \in 1..n}
\* Log events that are calls to a collaborator.
DownstreamEvents == {"remoteAuth", "ledgerCall", "analyticsCall", "publishCall", "cacheDel",
                     "cacheGet", "fetch", "cacheSet", "peerCall", "dbQuery"}
\* A request that authenticateToken has to check.
Protected(r) == gw[r].pc # "idle" /\ ~AllowListed(Path(gw[r].route))

\* C1: a ledger write is all-or-nothing. In every state, for every
\* transaction id, a reader sees either the header with all N line items of
\* the request or no row; a handler that answered after a failed begin,
\* insert or commit answered 500 and left no row of its transaction, and one
\* that answered 200 left all of them.
C1_AllOrNothing ==
    /\ \A id \in TxIds : VisibleOf(id) = {} \/ VisibleOf(id) = FullRows(id, asked[id])
    /\ \A r \in Reqs :
         (ldg[r].pc = "replied" /\ ldg[r].txn # 0) =>
            \/ ldg[r].status = 200 /\ VisibleOf(ldg[r].txn) = FullRows(ldg[r].txn, ldg[r].n)
            \/ ldg[r].status = 500 /\ {x \in db.rows : x.txn = ldg[r].txn} = {}

\* A write that failed on its second line item has answered.
C1_Witness ==
    \E r \in Reqs : /\ ldg[r].pc = "replied" /\ ldg[r].status = 500
                    /\ ldg[r].n = 2 /\ ldg[r].inserted = 1

\* C2: in a create request the ledger write is durable before the event
\* publish and before the cache invalidation are issued, and after a failed
\* ledger call no analytics forward, publish or invalidation is issued.
C2_WriteBeforeSideEffects ==
    \A r \in Reqs :
       LET log == gw[r].log IN
       /\ (Has(log, "publishCall") \/ Has(log, "cacheDel")) =>
             /\ Has(log, "ledgerOk")
             /\ Pos(log, "ledgerOk") > Pos(log, "ledgerCall")
             /\ Has(log, "publishCall") => Pos(log, "ledgerOk") < Pos(log, "publishCall")
             /\ Has(log, "cacheDel") => Pos(log, "ledgerOk") < Pos(log, "cacheDel")
             /\ HeaderRow(gw[r].data.transaction_id) \in Keys(Visible(db))
       /\ Has(log, "ledgerFail") =>
             ~(Has(log, "analyticsCall") \/ Has(log, "publishCall") \/ Has(log, "cacheDel"))

\* A create request has issued its publish.
C2_Witness ==
    \E r \in Reqs : gw[r].route = "create" /\ Has(gw[r].log, "publishCall")

\* C3: once the ledger call of a create request succeeded, failures of the
\* analytics forward, the publish or the invalidation are absorbed: the
\* answer is 200 with the ledger's result, and the transaction stays stored.
C3_SideEffectErrorsAbsorbed ==
    \A r \in Reqs :
       (gw[r].route = "create" /\ Has(gw[r].log, "ledgerOk")) =>
          /\ VisibleOf(gw[r].data.transaction_id)
                = FullRows(gw[r].data.transaction_id, gw[r].data.items)
          /\ gw[r].pc = "done" =>
                /\ gw[r].resp.status = 200
                /\ gw[r].resp.body = LedgerData(gw[r].data.transaction_id, gw[r].arg)

\* A create request was answered after both side effects failed.
C3_Witness ==
    \E r \in Reqs : /\ gw[r].pc = "done" /\ gw[r].resp.status = 200
                    /\ Has(gw[r].log, "analyticsFail") /\ Has(gw[r].log, "publishFail")

\* C4: once the ledger write succeeded, the gateway eventually answers the
\* client, even if the analytics service or the event channel never answers.
C4_ResponseNotGated ==
    \A r \in Reqs : (gw[r].pc \in {"analyticsWait", "publishWait"}) ~> (gw[r].pc = "done")

\* C5: every successfully answered create request has issued a cache delete
\* for the key of the transaction the ledger created.
C5_InvalidationIssued ==
    \A r \in Reqs :
       (gw[r].route = "create" /\ gw[r].pc = "done" /\ gw[r].resp.status = 200) =>
          Has(gw[r].log, "cacheDel")

\* The entry cache.set leaves for a value fetched for a transaction key.
StoredEntry(v) == [present |-> TRUE, str |-> Stringify(v), ttl |-> TRANSACTION_CACHE_TTL]

\* C6 as stated: for any key, a read that finds the entry an earlier miss
\* stored (not expired, not invalidated) is a hit that executes no fetch.
C6_Original ==
    \A r \in Reqs : (gw[r].route = "txGet" /\ gw[r].saw.present) => ~Has(gw[r].log, "fetch")

C6_Reads ==
    /\ \A r \in Reqs :
         gw[r].route = "txGet" =>
            /\ gw[r].resp.xcache = "HIT" =>
                  /\ gw[r].saw.present /\ Truthy(Parse(gw[r].saw.str))
                  /\ gw[r].resp.status = 200 /\ gw[r].resp.body = Parse(gw[r].saw.str)
                  /\ ~Has(gw[r].log, "fetch")
            /\ Has(gw[r].log, "fetch") => (~gw[r].saw.present \/ Parse(gw[r].saw.str) = Null)
            /\ gw[r].resp.xcache = "MISS" => Has(gw[r].log, "fetch")
    /\ \A k \in CacheKeys :
         cache[k].present =>
            /\ cache[k].ttl = TRANSACTION_CACHE_TTL
            /\ Truthy(Parse(cache[k].str)) => Parse(cache[k].str) = FetchTransaction(db, k)

C6_Steps ==
    \A r \in Reqs :
       LET k == gw[r].arg IN
       /\ (gw[r].pc = "cacheGet" /\ gw'[r] # gw[r] /\ ~Has(gw'[r].log, "cacheGetFail")) =>
             IF cache[k].present /\ Truthy(Parse(cache[k].str))
             THEN /\ gw'[r].pc = "done" /\ gw'[r].resp.xcache = "HIT"
                  /\ gw'[r].resp.body = Parse(cache[k].str)
             ELSE gw'[r].pc = "fetch"
       /\ (gw[r].pc = "cacheSet" /\ gw'[r].resp.xcache = "MISS") =>
             /\ cache'[k] = StoredEntry(gw[r].data)
             /\ Truthy(gw[r].data) => (gw'[r].resp.status = 200 /\ gw'[r].resp.body = gw[r].data)

\* C6 (amended): a read that finds no entry, or an entry holding null (the
\* stored result of a read that found no transaction), is a miss: it
\* executes the fetch, stores the result with the transaction TTL and
\* answers MISS; a read that finds an entry holding a transaction record is
\* a hit: it answers HIT with that stored payload and executes no fetch.
\* Entries carry the transaction TTL and a record equal to the stored one.
C6_CacheAside == []C6_Reads /\ [][C6_Steps]_vars

\* A read of a stored transaction was answered from the cache.
C6_Witness ==
    \E r \in Reqs : /\ gw[r].route = "txGet" /\ gw[r].pc = "done"
                    /\ gw[r].resp.xcache = "HIT"
                    /\ gw[r].resp.body = FetchTransaction(db, gw[r].arg)

\* C7: a cached read whose cache lookup or cache write failed still answers
\* with the result of the underlying fetch, never with an error response.
C7_FallThrough ==
    \A r \in Reqs :
       (/\ gw[r].route = "txGet" /\ gw[r].pc = "done"
        /\ (Has(gw[r].log, "cacheGetFail") \/ Has(gw[r].log, "cacheSetFail")))
          => gw[r].resp.status # 500

\* C8: on every route outside the allow-list, a request with no bearer
\* credential makes no downstream call and is answered 401.
C8_NoCredentialNoCalls ==
    \A r \in Reqs :
       (Protected(r) /\ ~HasBearer(gw[r].cred)) =>
          /\ \A i \in 1..Len(gw[r].log) : gw[r].log[i] \notin DownstreamEvents
          /\ gw[r].pc = "done" => gw[r].resp.status = 401

\* C9: on a protected path behind authenticateToken, next is called only
\* after local verification succeeded or the auth service answered
\* valid=true; when local verification failed and the auth service answered
\* not valid or gave no usable answer, the request is answered 401 and the
\* route's handler never runs.
C9_TwoTier ==
    \A r \in Reqs :
       (Protected(r) /\ HasAuthMiddleware(gw[r].route)) =>
          /\ (Has(gw[r].log, "next") \/ gw[r].pc \notin {"auth", "authRemote", "done"}) =>
                \/ HasBearer(gw[r].cred) /\ JwtVerify(gw[r].cred) = "ok"
                \/ Has(gw[r].log, "remoteValid")
          /\ (Has(gw[r].log, "remoteInvalid") \/ Has(gw[r].log, "remoteError")) =>
                /\ gw[r].pc = "done" /\ gw[r].resp.status = 401
                /\ ~Has(gw[r].log, "next")
                /\ \A i \in 1..Len(gw[r].log) :
                      gw[r].log[i] \notin (DownstreamEvents \ {"remoteAuth"})

\* A request whose token failed local verification was let through by the
\* auth service and served.
C9_Witness ==
    \E r \in Reqs : /\ Protected(r) /\ gw[r].cred = "expired"
                    /\ Has(gw[r].log, "remoteValid") /\ Has(gw[r].log, "next")
                    /\ gw[r].pc = "done" /\ gw[r].resp.status = 200

\* C10: a bearer credential that local verification rejects as malformed
\* causes no remote verification call.
C10_MalformedShortCircuit ==
    \A r \in Reqs :
       (Protected(r) /\ HasAuthMiddleware(gw[r].route) /\ gw[r].cred = "malformed") =>
          ~Has(gw[r].log, "remoteAuth")

\* C11: for a request whose path is /health, /metrics or starts with
\* /v1/auth/, authenticateToken calls next whatever the Authorization header
\* is, makes no remote call and sends no response; for any other path with
\* a missing or non-Bearer header it answers 401 and never calls next.
C11_AllowList ==
    \A r \in Reqs :
       gw[r].pc \notin {"idle", "auth"} =>
          IF Path(gw[r].route) \in {"/health", "/metrics"}
             \/ StartsWith(Path(gw[r].route), "/v1/auth/")
          THEN /\ gw[r].log = <<"next">>
               /\ gw[r].resp = NoResp
          ELSE ~HasBearer(gw[r].cred) =>
                  /\ gw[r].pc = "done" /\ gw[r].resp.status = 401
                  /\ gw[r].log = <<"respond">>

\* A request for /metrics carrying a malformed token went through to next.
C11_Witness ==
    \E r \in Reqs : /\ gw[r].route = "unitMetrics" /\ gw[r].cred = "malformed"
                    /\ gw[r].pc = "done" /\ Has(gw[r].log, "next")

\* Collaborators that failed request r: their call was rejected, or (the
\* ledger) the query behind the answer failed.
Failed(r) == {c \in Collabs : gw[r].calls[c] = "rejected" \/ gw[r].got[c] = StatsFailure}

\* C12: on a cache miss of GET /api/v1/aggregate the four calls are pending
\* together and the answer waits for all of them; whatever subset fails,
\* the answer has status 200, the payload of each collaborator that
\* answered in its slot and the error marker in the slot of each that
\* failed.
C12_FanOutIsolation ==
    \A r \in Reqs :
       gw[r].route = "aggregate" =>
          /\ gw[r].pc = "fanout" => \A c \in Collabs : gw[r].calls[c] # "none"
          /\ Has(gw[r].log, "cacheSet") => \A c \in Collabs : gw[r].calls[c] \in {"fulfilled", "rejected"}
          /\ (gw[r].pc = "done" /\ Has(gw[r].log, "peerCall")) =>
                /\ gw[r].resp.status = 200
                /\ \A c \in Collabs :
                      gw[r].resp.body[c] = IF c \in Failed(r) THEN ErrBody("Service unavailable")
                                                             ELSE PeerData(c, db)

\* C13: the fan-out of GET /api/v1/aggregate always completes: a request
\* that issued its four calls is eventually answered, even if one
\* collaborator never answers.
C13_FanOutCompletes ==
    \A r \in Reqs : (gw[r].pc = "fanout") ~> (gw[r].pc = "done")

\* Header rows of committed transactions.
CommittedHeaders == {x \in Visible(db) : x.kind = "header"}

\* C14: every committed transaction header satisfies
\* total = subtotal - discount + tax on its stored two-decimal columns, the
\* four values being those the service computed from the request's items
\* and discount code.
C14_HeaderArithmetic ==
    \A x \in CommittedHeaders : x.val.total = x.val.subtotal - x.val.discount + x.val.tax

\* A handler that has priced its request.
Priced(r) == ldg[r].pc = "begin"
\* An amount rounded to two decimals.
Round2(x) == Amount(Numeric(x))

\* C15: for every item list and discount code the pricing result has
\* total = round(subtotal - discount + tax, 2), and subtotal, discount and
\* tax are not negative.
C15_TotalRounded ==
    \A r \in Reqs :
       Priced(r) =>
          LET p == ldg[r].price IN
          /\ p.total = Round2(p.subtotal - p.discount + p.tax)
          /\ p.subtotal >= 0 /\ p.discount >= 0 /\ p.tax >= 0

\* An item calculateSubtotal counts.
ValidItem(item) == item.quantity > 0 /\ item.price >= 0
\* The sum of price * quantity over a list.
SumAll(items) ==
    LET RECURSIVE Sum(_)
        Sum(s) == IF s = <<>> THEN 0
                  ELSE Amount(Head(s).price) * Head(s).quantity + Sum(Tail(s))
    IN Sum(items)
\* The list without its i-th item.
Without(items, i) == SubSeq(items, 1, i - 1) \o SubSeq(items, i + 1, Len(items))

\* C16: the subtotal is the sum of price * quantity over the items with
\* quantity > 0 and price >= 0; removing an item with quantity <= 0 or
\* price < 0 from the list leaves the subtotal unchanged, and a list that
\* holds such an item is not rejected for it.
C16_SubtotalOfValidItems ==
    \A r \in Reqs :
       LET items == ldg[r].body.items IN
       /\ Priced(r) =>
             /\ ldg[r].price.subtotal = SumAll(SelectSeq(items, ValidItem))
             /\ \A i \in 1..Len(items) :
                   ~ValidItem(items[i]) =>
                      calculateSubtotal(Without(items, i)) = ldg[r].price.subtotal
       /\ (ldg[r].pc = "replied" /\ ldg[r].status = 400) => Len(items) = 0

\* A list of a counted item and one with a negative price was priced.
C16_Witness ==
    \E r \in Reqs :
       /\ Priced(r) /\ Len(ldg[r].body.items) = 2
       /\ ldg[r].body.items[1].price < 0 /\ ldg[r].price.subtotal = Amount(2499) * 4

\* C17: the discount is 0 for the empty code and for a code outside the
\* table, and subtotal * rate for SAVE10 (10%), SAVE20 (20%), WELCOME (15%)
\* and VIP (25%); it lies between 0 and the subtotal.
C17_DiscountTable ==
    \A r \in Reqs :
       Priced(r) =>
          LET p == ldg[r].price
              code == ldg[r].body.code
              \* d = s * pct / 100, for s a whole multiple of 100
              IsShare(d, s, pct) == s % 100 = 0 /\ d % pct = 0 /\ d \div pct = s \div 100
          IN /\ code \notin {"SAVE10", "SAVE20", "WELCOME", "VIP"} => p.discount = 0
             /\ code = "SAVE10" => IsShare(p.discount, p.subtotal, 10)
             /\ code = "SAVE20" => IsShare(p.discount, p.subtotal, 20)
             /\ code = "WELCOME" => IsShare(p.discount, p.subtotal, 15)
             /\ code = "VIP" => IsShare(p.discount, p.subtotal, 25)
             /\ 0 <= p.discount /\ p.discount <= p.subtotal

\* The documented example was priced with the VIP code.
C17_Witness ==
    \E r \in Reqs :
       /\ Priced(r) /\ ldg[r].body.code = "VIP"
       /\ ldg[r].price.subtotal = Amount(79896) /\ ldg[r].price.discount = Amount(19974)

\* C18: for the items 699.00 x 1 and 24.99 x 4 with code SAVE10 the stored
\* header holds, in cents, subtotal 798.96, discount 79.90, tax 57.52 and
\* total 776.58.
C18_Example ==
    \A w \in Replicas :
       (ldg[w].body = ExampleBody /\ ldg[w].pc = "replied" /\ ldg[w].status = 200) =>
          \E x \in CommittedHeaders :
             /\ x.txn = ldg[w].txn
             /\ x.val = [subtotal |-> 79896, discount |-> 7990, tax |-> 5752, total |-> 77658]

\* A create request the service is handling or has answered.
IsCreate(w) ==
    \/ ldg[w].pc \in {"begin", "header", "items"}
    \/ ldg[w].pc = "replied" /\ ldg[w].out = Null

\* C19: a create request whose body is malformed, whose item list is
\* missing or empty, or whose items all have a quantity of zero or less is
\* answered with a 4xx status before any persistence: no transaction is
\* begun for it and no row written.
C19_RejectedBeforePersistence ==
    \A w \in Replicas :
       LET body == ldg[w].body IN
       (/\ IsCreate(w)
        /\ \/ body.malformed
           \/ \A i \in 1..Len(body.items) : body.items[i].quantity <= 0)
         => /\ ldg[w].pc = "replied"
            /\ ldg[w].status >= 400 /\ ldg[w].status < 500
            /\ ldg[w].txn = 0

\* Ids of the transactions whose header a reader sees.
CommittedIds == {x.txn : x \in CommittedHeaders}
\* The stored total of committed transaction id.
StoredTotal(id) == (CHOOSE x \in CommittedHeaders : x.txn = id).val.total
\* The sum of the stored totals of the committed transactions up to id n.
TotalsUpTo(n) ==
    LET RECURSIVE Go(_)
        Go(i) == IF i = 0 THEN 0
                 ELSE Go(i - 1) + (IF i \in CommittedIds THEN StoredTotal(i) ELSE 0)
    IN Go(n)

C20_Steps ==
    \A w \in Replicas :
       (ldg[w].pc = "stats" /\ ldg'[w].pc = "replied"
        /\ "total_transactions" \in DOMAIN ldg'[w].out) =>
          LET out == ldg'[w].out
              count == Cardinality(CommittedIds)
          IN /\ out.total_transactions = count
             /\ out.total_revenue = TotalsUpTo(MaxTx)
             /\ count = 0 => out.average_order_value = [num |-> 0, den |-> 1]
             /\ count > 0 => /\ out.average_order_value.den > 0
                             /\ out.average_order_value.num * count
                                   = out.total_revenue * out.average_order_value.den

\* C20: whatever creates the replicas handled and whichever of them were
\* restarted, an answered statistics query returns the number of committed
\* transaction headers in the store, the sum of their stored totals, and
\* revenue / count as the average, 0 when there is none.
C20_StatsFromStore == [][C20_Steps]_vars

\* A statistics query counted one committed transaction while another
\* replica had written the header of a transaction it has not committed.
C20_Witness ==
    \E w \in Replicas, v \in Replicas :
       /\ ldg[w].pc = "replied" /\ "total_transactions" \in DOMAIN ldg[w].out
       /\ ldg[w].out.total_transactions = 1 /\ ldg[w].out.total_revenue > 0
       /\ ldg[v].pc = "items"

\* C21: transactions are append-only: no step of the ledger service or of
\* the gateway removes or changes a committed header or line-item row, so
\* the rows a reader sees only grow.
C21_AppendOnly == [][Visible(db) \subseteq Visible(db')]_vars

\* A write was rolled back while an earlier transaction stayed committed.
C21_Witness ==
    \E r \in Reqs :
       /\ ldg[r].pc = "replied" /\ ldg[r].status = 500 /\ ldg[r].inserted = 1
       /\ \E id \in TxIds : id # ldg[r].txn /\ VisibleOf(id) = FullRows(id, asked[id])
                              /\ asked[id] > 0

\* Number of occurrences of e in s.
Count(s, e) == Cardinality({i \in 1..Len(s) : s[i] = e})

\* C22: a create request hands at most one event to the event channel,
\* none when the ledger write failed, and makes no further publish attempt
\* after a failed one.
C22_PublishAtMostOnce ==
    \A r \in Reqs :
       LET log == gw[r].log IN
       /\ Count(log, "publishCall") <= 1
       /\ Has(log, "ledgerFail") => ~Has(log, "publishCall")
       /\ Has(log, "publishFail") =>
             \A i \in 1..Len(log) : i > Pos(log, "publishFail") => log[i] # "publishCall"

\* A create request was answered after its one publish failed.
C22_Witness ==
    \E r \in Reqs : /\ gw[r].pc = "done" /\ Has(gw[r].log, "publishFail")
                    /\ Count(gw[r].log, "publishCall") = 1

\* C23: a client disconnect after the ledger write committed leaves the
\* header and all line items of the transaction in the store; a disconnect
\* before the commit leaves no row of it, and the handler answers 500.
C23_DisconnectKeepsCommit ==
    \A w \in Replicas :
       /\ (ldg[w].cancelled = "replied" /\ ldg[w].status = 200) =>
             VisibleOf(ldg[w].txn) = FullRows(ldg[w].txn, ldg[w].n)
       /\ ldg[w].cancelled \in {"recv", "begin", "header", "items"} =>
             /\ VisibleOf(ldg[w].txn) = {}
             /\ ldg[w].pc = "replied" =>
                   /\ ldg[w].status # 200
                   /\ {x \in db.rows : x.txn = ldg[w].txn} = {}

\* The client went away between two line-item inserts, and the handler has
\* returned.
C23_Witness ==
    \E w \in Replicas :
       /\ ldg[w].cancelled = "items" /\ ldg[w].inserted = 1 /\ ldg[w].n = 2
       /\ ldg[w].pc = "replied"

\* C24: an authenticated GET /api/v1/transactions/:id is answered 400,
\* with no cache or store access, for an id that is not a well-formed UUID;
\* 404 for a well-formed id with no transaction in the ledger; and 200 with
\* the transaction's data for the id of a persisted transaction. Stated for
\* the reads whose cache and store calls were answered.
C24_LookupStatuses ==
    \A r \in Reqs :
       (gw[r].route = "txGet" /\ gw[r].pc = "done" /\ Has(gw[r].log, "next")) =>
          IF gw[r].arg = BadId
          THEN /\ gw[r].resp.status = 400
               /\ \A i \in 1..Len(gw[r].log) :
                     gw[r].log[i] \notin {"cacheGet", "fetch", "cacheSet"}
          ELSE (\A i \in 1..Len(gw[r].log) :
                   gw[r].log[i] \notin {"cacheGetFail", "fetchFail", "cacheSetFail"}) =>
                  IF VisibleOf(gw[r].arg) = {}
                  THEN gw[r].resp.status = 404
                  ELSE /\ gw[r].resp.status = 200
                       /\ gw[r].resp.body
                             = [transactionId |-> gw[r].arg, items |-> asked[gw[r].arg]]

\* A read of a persisted transaction with two line items was answered from
\* the store.
C24_Witness ==
    \E r \in Reqs :
       /\ gw[r].route = "txGet" /\ gw[r].pc = "done" /\ gw[r].resp.status = 200
       /\ gw[r].resp.xcache = "MISS" /\ gw[r].resp.body.items = 2

\* A proxy request that was answered after its call to the collaborator
\* settled.
Proxied(r) ==
    /\ gw[r].route \in ProxyRoutes /\ gw[r].pc = "done"
    /\ "status" \in DOMAIN gw[r].data

\* C25: whenever the collaborator of a proxy endpoint answers, the status
\* and the body the gateway returns are the collaborator's status and body.
C25_ProxyRelays ==
    \A r \in Reqs :
       (Proxied(r) /\ gw[r].data.status # 0) =>
          /\ gw[r].resp.status = gw[r].data.status
          /\ gw[r].resp.body = gw[r].data.body

StaleAggregate ==
    /\ cache[AggKey].present
    /\ LET go == Parse(cache[AggKey].str).go_service
       IN  /\ "total_transactions" \in DOMAIN go
           /\ go.total_transactions < StatsCount(db)

C28_StatsFailureIs5xx ==
    \A w \in Replicas :
       (ldg[w].pc = "replied" /\ ldg[w].out = StatsFailure) => ldg[w].status >= 500

\* The entry cache.set writes for the aggregate a.
AggregateEntry(a) == [present |-> TRUE, str |-> Stringify(a), ttl |-> AGGREGATE_CACHE_TTL]

\* The aggregate a holds the error marker in the slot of some collaborator.
HasMarker(a) == \E c \in Collabs : a[c] = ErrBody("Service unavailable")

C29_Steps ==
    \A r \in Reqs :
       gw[r].route = "aggregate" =>
          /\ (gw[r].pc = "cacheSet" /\ gw'[r].pc = "done" /\ gw'[r].resp.status = 200) =>
                /\ gw[r].data = AggregateBody(gw[r].calls, gw[r].got)
                /\ cache' = [cache EXCEPT ![AggKey] = AggregateEntry(gw[r].data)]
          /\ (gw[r].pc = "cacheGet" /\ cache[AggKey].present /\ gw'[r] # gw[r]
                 /\ ~Has(gw'[r].log, "cacheGetFail")) =>
                /\ gw'[r].pc = "done"
                /\ gw'[r].resp = [status |-> 200, body |-> Parse(cache[AggKey].str), xcache |-> "HIT"]
                /\ ~Has(gw'[r].log, "peerCall")
                /\ \A c \in Collabs : gw'[r].calls[c] = "none"

\* C29: the aggregate is cached as one unit under the one key aggregate:v1
\* with the aggregate TTL whatever it holds, error markers included, and
\* while the entry is there every read whose cache lookup answers returns
\* the stored aggregate as a HIT without calling a collaborator.
C29_AggregateCachedWhole == [][C29_Steps]_vars

\* A read was answered from the cache with an aggregate that holds an
\* error marker.
C29_Witness ==
    \E r \in Reqs :
       /\ gw[r].route = "aggregate" /\ gw[r].pc = "done"
       /\ gw[r].resp.status = 200 /\ gw[r].resp.xcache = "HIT"
       /\ HasMarker(gw[r].resp.body)

\* Request r ran the fetch and its cache.set answered.
Wrote(r) ==
    gw[r].pc = "done" /\ Has(gw[r].log, "cacheSet") /\ ~Has(gw[r].log, "cacheSetFail")

\* The entry cache.set writes for the transaction read t.
TransactionEntry(t) == [present |-> TRUE, str |-> Stringify(t), ttl |-> TRANSACTION_CACHE_TTL]

C30_Steps ==
    /\ \A r \in RaceReqs :
          /\ (gw[r].pc = "cacheSet" /\ gw'[r].pc = "done" /\ ~Has(gw'[r].log, "cacheSetFail")) =>
                /\ cache'[RaceKey] = TransactionEntry(gw[r].data)
                /\ gw'[r].resp.xcache = "MISS"
          /\ (gw'[r].pc = "done" /\ Has(gw'[r].log, "fetch")) => gw'[r].resp.xcache # "HIT"
    /\ ((\A r \in RaceReqs : Wrote(r))' /\ cache'[RaceKey].present) =>
          \E r \in RaceReqs : cache'[RaceKey] = TransactionEntry(gw'[r].data)

\* C30: nothing keeps two reads of one key from both missing, both running
\* the fetch and both writing the cache; each write leaves the writer's
\* result in the entry, so after both the cache holds the result of one of
\* the two fetches, and both requests are answered as misses.
C30_DuplicateFetch == [][C30_Steps]_vars

\* Both requests have run the fetch for the one key, with different
\* results, and both are about to write the cache.
C30_Witness ==
    /\ \A r \in RaceReqs : gw[r].pc = "cacheSet" /\ gw[r].arg = RaceKey
    /\ gw[1].data # gw[2].data

\* The create request r was answered with the ledger's response.
Created(r) == gw[r].route = "create" /\ gw[r].pc = "done" /\ gw[r].resp.status = 200

\* C31: nothing deduplicates creates: each of two create requests with the
\* same payload that is answered with success has committed a ledger entry
\* of its own, under an id the other does not have, and an event published
\* for one carries that request's own id.
C31_NoDeduplication ==
    /\ \A r \in DupReqs :
          Created(r) =>
             /\ HeaderRow(gw[r].resp.body.transaction_id) \in Keys(Visible(db))
             /\ gw[r].data = gw[r].resp.body
             /\ Count(gw[r].log, "publishCall") = 1
    /\ \A r1, r2 \in DupReqs :
          (r1 # r2 /\ Created(r1) /\ Created(r2)) =>
             gw[r1].resp.body.transaction_id # gw[r2].resp.body.transaction_id

\* Both requests carried the same payload, both were answered with success
\* and both events were published.
C31_Witness ==
    /\ \A r \in DupReqs : Created(r) /\ Has(gw[r].log, "publishOk")
    /\ gw[1].arg = gw[2].arg
    /\ Cardinality({k \in Keys(Visible(db)) : \E id \in TxIds : k = HeaderRow(id)}) = 2

\* The record of transaction id the ledger has persisted.
Persisted(id) == [transactionId |-> id, items |-> asked[id]]

\* C32: a transaction read answered from the cache returns the record the
\* ledger has persisted for that id, whatever creates, reads and expiries
\* came before; a not-found answer never comes from the cache: the request
\* that gives it has read the store itself, also when it found a cached
\* null.
C32_ReadsNeverStale ==
    \A r \in RaceReqs :
       (gw[r].route = "txGet" /\ gw[r].pc = "done") =>
          /\ gw[r].resp.xcache = "HIT" =>
                /\ gw[r].resp.status = 200
                /\ VisibleOf(gw[r].arg) # {}
                /\ gw[r].resp.body = Persisted(gw[r].arg)
                /\ ~Has(gw[r].log, "fetch")
          /\ gw[r].resp.status = 404 =>
                /\ gw[r].resp.xcache = "MISS"
                /\ Has(gw[r].log, "fetch")

\* One read was answered from the cache with the persisted record while
\* another, which had found a cached null, went to the store and answered
\* not found.
C32_Witness ==
    \E r1, r2 \in RaceReqs :
       /\ gw[r1].pc = "done" /\ gw[r1].resp.xcache = "HIT" /\ gw[r1].resp.status = 200
       /\ gw[r2].pc = "done" /\ gw[r2].resp.status = 404 /\ gw[r2].saw.present

\* C33: POST /v1/auth/validate answers {valid: true} only to a request
\* whose bearer credential passed the local or the remote verification.
C33_ValidOnlyIfVerified ==
    \A r \in Reqs :
       (gw[r].route = "authValidate" /\ gw[r].pc = "done" /\ gw[r].resp.status = 200) =>
          \/ HasBearer(gw[r].cred) /\ JwtVerify(gw[r].cred) = "ok"
          \/ Has(gw[r].log, "remoteValid")

\* C34: a call of authenticateToken ends in exactly one outcome: next is
\* called once and the middleware sends nothing, or one response is sent,
\* with status 401, and next is not called; req.user is set only when next
\* is called.
C34_OneOutcome ==
    \A r \in Reqs :
       LET nexts == Count(gw[r].log, "next")
           sent == Count(gw[r].log, "respond")
       IN  /\ nexts + sent <= 1
           /\ gw[r].pc \in {"handler", "done"} => nexts + sent = 1
           /\ sent = 1 => gw[r].resp.status = 401 /\ gw[r].user = "unset"
           /\ nexts = 1 => gw[r].resp = NoResp
           /\ gw[r].user # "unset" => nexts = 1

\* A call with an expired token whose remote validation failed has ended
\* in the 401 "Token expired".
C34_Witness ==
    \E r \in Reqs :
       /\ gw[r].pc = "done" /\ gw[r].cred = "expired" /\ Has(gw[r].log, "remoteError")
       /\ gw[r].resp = [status |-> 401, body |-> ErrBody("Token expired"), xcache |-> "-"]

\* Channels the calls in progress hold as the result of ensureChannel.
ChannelsInUse == {bus.call[c].got : c \in {d \in BusCallers : bus.call[d].pc = "got"}}

\* C35: however the calls of ensureChannel and publish interleave, the
\* process opens at most one connection and one channel, and all callers
\* use that channel.
C35_OneChannel ==
    /\ bus.opened <= 1
    /\ Cardinality(ChannelsInUse) <= 1

C36_Steps ==
    \A c \in BusCallers :
       (bus.call[c].pc # "got" /\ bus'.call[c].pc = "got") =>
          bus'.state[bus'.call[c].got] = "open"

\* C36: ensureChannel never returns a channel that is closed: after the
\* channel or its connection closed, a later call gets a channel that is
\* open.
C36_NeverClosedChannel == [][C36_Steps]_vars

\* C39: whatever signals arrive, the shutdown sequence is started at most
\* once, the HTTP server is closed only after the three close calls have
\* settled, and the process exits only once the HTTP server has closed.
C39_OrderedShutdown ==
    /\ proc.starts <= 1
    /\ proc.server # "listening" => proc.closing = {}
    /\ proc.exited # "no" => proc.server = "closed"

\* C40: no two registrations answered 201 share a username or an email,
\* and what a registration answered 201 stored is still stored: no later
\* registration has overwritten it.
C40_RegistrationsUnique ==
    /\ \A i, j \in 1..Len(reg.accepted) :
          i < j => /\ reg.accepted[i].username # reg.accepted[j].username
                   /\ reg.accepted[i].email # reg.accepted[j].email
    /\ \A i \in 1..Len(reg.accepted) :
          reg.users[reg.accepted[i].username] = reg.accepted[i].email

\* The sum of unit_price * quantity over the line-item rows S.
ItemsTotal(S) ==
    LET RECURSIVE Sum(_)
        Sum(T) == IF T = {} THEN 0
                  ELSE LET x == CHOOSE y \in T : TRUE
                       IN  x.val.unit_price * x.val.quantity + Sum(T \ {x})
    IN Sum(S)

\* C37: the subtotal of every persisted transaction is the sum of
\* unit_price * quantity over its persisted line-item rows.
C37_SubtotalOfPersistedItems ==
    \A h \in CommittedHeaders :
       h.val.subtotal = ItemsTotal({x \in Visible(db) : x.txn = h.txn /\ x.kind = "item"})

\* C38: the customer reference never blocks a write: whatever the
\* customer_id of a create request with a non-empty item list is, the
\* store, when it is reachable, accepts the header the handler inserts.
C38_CustomerNeverBlocks ==
    \A w \in Replicas :
       (ldg[w].pc = "header" /\ ldg[w].cancelled = "no") =>
          ENABLED (LedgerInsertHeader(w) /\ ldg'[w].pc = "items")

====
